---- MODULE Spec2Model ----
(***************************************************************************)
(* A model of prost-twirp: the Twirp wire runtime (src/src/service_run.rs) *)
(* and the service generator (src/src/service_gen.rs).                     *)
(*                                                                         *)
(* Text is modelled as a sequence of chunks.  A chunk is a TLA+ string     *)
(* standing for a run of characters none of which is special to JSON; the  *)
(* two characters JSON escapes inside a string, the quote and the          *)
(* backslash, are chunks of their own.  A byte body is a sequence of       *)
(* chunks too, and its length is the number of its chunks.  URL paths are  *)
(* TLA+ strings, concatenated with \o.                                     *)
(***************************************************************************)
EXTENDS Integers, Sequences, FiniteSets, TLC

VARIABLES
    pc,        \* per in-flight request: "new", "created", "pending" or "done"
    request,   \* per request: the hyper Request handed to HyperServer::call
    handled,   \* per request: the ServiceRequests passed to HyperService::handle
    invoked,   \* per request: the user methods the server adapter has called
    result,    \* per request: what the handler's future resolved to
    outcome,   \* per request: what the future returned by call resolved to
    embed_client, \* TwirpServiceGenerator.embed_client
    buf,       \* the generator's output buffer, a sequence of emitted items
    generated, \* the service descriptors generate() has been called with
    gen_pc,    \* the code generation run: "generate" or "finalized"
    fn_arg,    \* the arguments a function of the runtime is called with
    fn_ret,    \* what the calls made on fn_arg returned, in order
    clients,   \* per HyperClient: its construction, its go() call and the reply
    env        \* a ServiceRequest in the making: the operations applied so far

vars == <<pc, request, handled, invoked, result, outcome,
         embed_client, buf, generated, gen_pc, fn_arg, fn_ret, clients, env>>
srv_vars == <<pc, request, handled, invoked, result, outcome>>
gen_vars == <<embed_client, buf, generated, gen_pc>>
lib_vars == <<fn_arg, fn_ret, clients, env>>

(***************************************************************************)
(* Bounds of the model.                                                    *)
(***************************************************************************)
\* number of requests that can be in flight in one HyperServer
MaxInFlight == 2
\* deepest nesting of AfterBodyError layers around a root error
MaxWrap == 2
\* number of services one generator run is given
MaxServices == 2
\* largest integer the JSON and protobuf codecs are exercised with
MaxNum == 10
\* longest sequence of ServiceRequest operations applied to one value
MaxOps == 5

(***************************************************************************)
(* Option<T>: None is the empty sequence, Some(v) the sequence <<v>>.      *)
(***************************************************************************)
None == << >>
Some(v) == <<v>>
IsSome(o) == Len(o) = 1
Unwrap(o) == o[1]

\* fn_arg while no function of the runtime is being called
NoCall == [op |-> "none"]

\* env: the value in hand, the operations that made it, what new returned
Envelope(kind, v, ops, made) == [kind |-> kind, v |-> v, ops |-> ops, made |-> made]
\* env before any operation
NoEnvelope == Envelope("none", << >>, << >>, None)

(***************************************************************************)
(* hyper::header::HeaderMap: a multimap from header name to the values     *)
(* held for it, in order.  A name is in the domain iff it has a value.     *)
(***************************************************************************)
CONTENT_TYPE == "content-type"
CONTENT_LENGTH == "content-length"
JSON_CONTENT_TYPE == "application/json"
PROTOBUF_CONTENT_TYPE == "application/protobuf"
HTTP_11 == "HTTP/1.1"

HeaderMapNew == [n \in {} |-> << >>]

\* HeaderMap::insert: replaces every value held for the name
HdrInsert(h, n, v) ==
    [k \in (DOMAIN h) \cup {n} |-> IF k = n THEN <<v>> ELSE h[k]]

\* HeaderMap::append, which http's Builder::header calls: adds one more value
HdrAppend(h, n, v) ==
    [k \in (DOMAIN h) \cup {n} |->
        IF k = n THEN (IF n \in DOMAIN h THEN h[n] ELSE << >>) \o <<v>>
        ELSE h[k]]

\* HeaderMap::get: the first value held for the name
HdrGet(h, n) == IF n \in DOMAIN h THEN Some(h[n][1]) ELSE None

(***************************************************************************)
(* serde_json::Value, restricted to null, numbers, strings and objects.    *)
(***************************************************************************)
JNull == [t |-> "null"]
JNum(n) == [t |-> "num", n |-> n]
JStr(s) == [t |-> "str", s |-> s]
JObj(o) == [t |-> "obj", o |-> o]

\* the keys of the objects the model builds, in the order of serde_json's Map
KeyOrder == <<"error_type", "max", "meta", "min", "msg">>

QUOTE == "\""
BACKSLASH == "\\"

\* an escaping that leaves the backslash as it is
RECURSIVE EscapeQuoteOnly(_)
EscapeQuoteOnly(s) ==
    IF s = << >> THEN << >>
    ELSE (IF Head(s) = QUOTE THEN <<BACKSLASH, Head(s)>> ELSE <<Head(s)>>)
         \o EscapeQuoteOnly(Tail(s))

RECURSIVE Escape(_)
Escape(s) ==
    IF s = << >> THEN << >>
    ELSE (IF Head(s) \in {QUOTE, BACKSLASH} THEN <<BACKSLASH, Head(s)>>
          ELSE <<Head(s)>>) \o Escape(Tail(s))

SerStr(s) == <<QUOTE>> \o Escape(s) \o <<QUOTE>>

\* serde_json::to_vec on a Value
RECURSIVE SerValue(_)
RECURSIVE SerMembers(_, _, _)
SerMembers(o, i, first) ==
    IF i > Len(KeyOrder) THEN << >>
    ELSE IF KeyOrder[i] \in DOMAIN o
         THEN (IF first THEN << >> ELSE <<",">>)
              \o <<QUOTE, KeyOrder[i], QUOTE, ":">> \o SerValue(o[KeyOrder[i]])
              \o SerMembers(o, i + 1, FALSE)
         ELSE SerMembers(o, i + 1, first)
SerValue(v) ==
    CASE v.t = "null" -> <<"null">>
      [] v.t = "num" -> <<ToString(v.n)>>
      [] v.t = "str" -> SerStr(v.s)
      [] v.t = "obj" -> <<"{">> \o SerMembers(v.o, 1, TRUE) \o <<"}">>

ParseFail == [ok |-> FALSE]
ParseOk(v, next) == [ok |-> TRUE, v |-> v, next |-> next]

\* the characters of a string, from the one after its opening quote
RECURSIVE ParseStrBody(_, _, _)
ParseStrBody(b, i, acc) ==
    IF i > Len(b) THEN ParseFail
    ELSE IF b[i] = QUOTE THEN ParseOk(acc, i + 1)
    ELSE IF b[i] = BACKSLASH
         THEN IF i + 1 > Len(b) \/ b[i + 1] \notin {QUOTE, BACKSLASH}
              THEN ParseFail
              ELSE ParseStrBody(b, i + 2, Append(acc, b[i + 1]))
    ELSE ParseStrBody(b, i + 1, Append(acc, b[i]))

RECURSIVE JoinChunks(_)
JoinChunks(s) == IF s = << >> THEN "" ELSE Head(s) \o JoinChunks(Tail(s))

IsNumChunk(c) == \E n \in 0..MaxNum : ToString(n) = c
NumOfChunk(c) == CHOOSE n \in 0..MaxNum : ToString(n) = c

RECURSIVE ParseValue(_, _)
RECURSIVE ParseMembers(_, _, _)
\* the members of an object, from the first chunk of a member; a repeated key
\* keeps its last value, as Map::insert does
ParseMembers(b, i, o) ==
    IF i > Len(b) \/ b[i] # QUOTE THEN ParseFail
    ELSE LET k == ParseStrBody(b, i + 1, << >>) IN
         IF ~k.ok \/ k.next > Len(b) \/ b[k.next] # ":" THEN ParseFail
         ELSE LET v == ParseValue(b, k.next + 1) IN
              IF ~v.ok \/ v.next > Len(b) THEN ParseFail
              ELSE LET key == JoinChunks(k.v)
                       o2 == [x \in (DOMAIN o) \cup {key} |->
                                 IF x = key THEN v.v ELSE o[x]]
                   IN  IF b[v.next] = "}" THEN ParseOk(JObj(o2), v.next + 1)
                       ELSE IF b[v.next] = "," THEN ParseMembers(b, v.next + 1, o2)
                       ELSE ParseFail
ParseValue(b, i) ==
    IF i > Len(b) THEN ParseFail
    ELSE IF b[i] = "null" THEN ParseOk(JNull, i + 1)
    ELSE IF IsNumChunk(b[i]) THEN ParseOk(JNum(NumOfChunk(b[i])), i + 1)
    ELSE IF b[i] = QUOTE
         THEN LET s == ParseStrBody(b, i + 1, << >>) IN
              IF s.ok THEN ParseOk(JStr(s.v), s.next) ELSE ParseFail
    ELSE IF b[i] = "{"
         THEN IF i + 1 <= Len(b) /\ b[i + 1] = "}"
              THEN ParseOk(JObj([x \in {} |-> JNull]), i + 2)
              ELSE ParseMembers(b, i + 1, [x \in {} |-> JNull])
    ELSE ParseFail

\* serde_json::from_slice: one value and nothing after it
FromSlice(b) ==
    LET r == ParseValue(b, 1) IN
    IF r.ok /\ r.next = Len(b) + 1 THEN [ok |-> TRUE, v |-> r.v]
    ELSE [ok |-> FALSE]

\* Value's Index by key: Null unless an object holding the key
JIndex(json, k) ==
    IF json.t = "obj" /\ k \in DOMAIN json.o THEN json.o[k] ELSE JNull
\* Value::get by key
JGet(json, k) ==
    IF json.t = "obj" /\ k \in DOMAIN json.o THEN Some(json.o[k]) ELSE None
\* Value::as_str
JAsStr(v) == IF v.t = "str" THEN Some(v.s) ELSE None


(***************************************************************************)
(* http::StatusCode values the runtime names.                              *)
(***************************************************************************)
OK == 200
BAD_REQUEST == 400
NOT_FOUND == 404
METHOD_NOT_ALLOWED == 405
UNSUPPORTED_MEDIA_TYPE == 415
INTERNAL_SERVER_ERROR == 500

\* StatusCode::is_success
\* a success test that knows 200 alone
IsSuccessOnlyOk(status) == status = OK
\* StatusCode::is_success
IsSuccess(status) == status >= 200 /\ status < 300

\* a Rust string literal free of quote and backslash: one chunk
Lit(s) == <<s>>

(***************************************************************************)
(* hyper::Request<Vec<u8>> and hyper::Response<Vec<u8>>.                   *)
(***************************************************************************)
HyperRequest(method, uri, headers, body) ==
    [method |-> method, uri |-> uri, version |-> HTTP_11,
     headers |-> headers, body |-> body]

HyperResponse(status, headers, body) ==
    [status |-> status, version |-> HTTP_11, headers |-> headers, body |-> body]

(***************************************************************************)
(* TwirpError.                                                             *)
(***************************************************************************)
TwirpErrorNewMeta(status, error_type, msg, meta) ==
    [status |-> status, error_type |-> error_type, msg |-> msg, meta |-> meta]

TwirpErrorNew(status, error_type, msg) ==
    TwirpErrorNewMeta(status, error_type, msg, None)

\* to_json without its meta member
ToJsonWithoutMeta(e) ==
    JObj([k \in {"error_type", "msg"} |->
            IF k = "error_type" THEN JStr(e.error_type) ELSE JStr(e.msg)])
\* TwirpError::to_json
ToJson(e) ==
    LET props == [k \in {"error_type", "msg"} |->
                     IF k = "error_type" THEN JStr(e.error_type) ELSE JStr(e.msg)]
    IN  IF IsSome(e.meta)
        THEN JObj([k \in (DOMAIN props) \cup {"meta"} |->
                     IF k = "meta" THEN Unwrap(e.meta) ELSE props[k]])
        ELSE JObj(props)

\* TwirpError::to_json_bytes; serde_json::to_vec does not fail on a Value
ToJsonBytes(e) == [ok |-> TRUE, v |-> SerValue(ToJson(e))]

\* from_json keeping the whole value as meta whatever it holds
FromJsonMetaWhole(status, json) ==
    LET error_type == JAsStr(JIndex(json, "error_type"))
        msg == JAsStr(JIndex(json, "msg"))
    IN  [status |-> status,
         error_type |-> IF IsSome(error_type) THEN Unwrap(error_type)
                        ELSE Lit("<no code>"),
         msg |-> IF IsSome(msg) THEN Unwrap(msg) ELSE Lit("<no message>"),
         meta |-> Some(json)]

\* TwirpError::from_json
FromJson(status, json) ==
    LET error_type == JAsStr(JIndex(json, "error_type"))
        msg == JAsStr(JIndex(json, "msg"))
    IN  [status |-> status,
         error_type |-> IF IsSome(error_type) THEN Unwrap(error_type)
                        ELSE Lit("<no code>"),
         msg |-> IF IsSome(msg) THEN Unwrap(msg) ELSE Lit("<no message>"),
         meta |-> IF IsSome(error_type) THEN JGet(json, "meta") ELSE Some(json)]

\* TwirpError::from_json_bytes
FromJsonBytes(status, bytes) ==
    LET r == FromSlice(bytes) IN
    IF r.ok THEN [ok |-> TRUE, v |-> FromJson(status, r.v)] ELSE [ok |-> FALSE]

\* the body of a Twirp error response: its JSON, or "{}" should that fail
ErrorBody(e) ==
    LET r == ToJsonBytes(e) IN IF r.ok THEN r.v ELSE <<"{", "}">>

\* TwirpError::to_hyper_resp
ToHyperResp(e) ==
    LET body == ErrorBody(e) IN
    HyperResponse(e.status,
        HdrAppend(HdrAppend(HeaderMapNew, CONTENT_TYPE, JSON_CONTENT_TYPE),
                  CONTENT_LENGTH, ToString(Len(body))),
        body)

\* TwirpError::to_resp_raw
ToRespRaw(e) ==
    LET output == ErrorBody(e) IN
    [version |-> HTTP_11,
     headers |-> HdrInsert(HdrInsert(HeaderMapNew, CONTENT_TYPE, JSON_CONTENT_TYPE),
                           CONTENT_LENGTH, ToString(Len(output))),
     status |-> e.status,
     output |-> output]

(***************************************************************************)
(* ProstTwirpError.                                                        *)
(***************************************************************************)
ErrTwirp(e) == [kind |-> "TwirpError", e |-> e]
ErrHyper(h) == [kind |-> "HyperError", h |-> h]
ErrJsonDecode == [kind |-> "JsonDecodeError"]
ErrProstEncode == [kind |-> "ProstEncodeError"]
ErrProstDecode == [kind |-> "ProstDecodeError"]
ErrInvalidUri == [kind |-> "InvalidUri"]
AfterBodyError(body, method, version, headers, status, err) ==
    [kind |-> "AfterBodyError", body |-> body, method |-> method,
     version |-> version, headers |-> headers, status |-> status, err |-> err]

\* root_err stripping a single layer
RootErrOneLayer(err) ==
    IF err.kind = "AfterBodyError" THEN err.err ELSE err

\* ProstTwirpError::root_err
RECURSIVE RootErr(_)
RootErr(err) ==
    IF err.kind = "AfterBodyError" THEN RootErr(err.err) ELSE err

(***************************************************************************)
(* ServiceRequest<T> and ServiceResponse<T>.                               *)
(***************************************************************************)
\* Uri::default(): no scheme, no authority, the path "/"
DefaultUri == "/"

\* ServiceRequest::new
ServiceRequestNew(input) ==
    [uri |-> DefaultUri, method |-> "POST", version |-> HTTP_11,
     headers |-> HdrInsert(HeaderMapNew, CONTENT_TYPE, PROTOBUF_CONTENT_TYPE),
     input |-> input]

\* ServiceRequest::clone_with_input
CloneWithInput(self, input) ==
    [uri |-> self.uri, method |-> self.method, version |-> self.version,
     headers |-> self.headers, input |-> input]

\* ServiceRequest::from_hyper_raw
FromHyperRaw(req) ==
    [uri |-> req.uri, method |-> req.method, version |-> req.version,
     headers |-> req.headers, input |-> req.body]

\* ServiceRequest::body_err
RequestBodyErr(self, err) ==
    AfterBodyError(self.input, Some(self.method), self.version, self.headers,
                   None, err)

\* prost's decode of the example message Size { int32 inches = 1; }: a run of
\* (tag "08", varint) pairs, the last of which wins; anything else fails
RECURSIVE MessageDecode(_, _)
MessageDecode(bytes, acc) ==
    IF bytes = << >> THEN [ok |-> TRUE, v |-> acc]
    ELSE IF Len(bytes) >= 2 /\ bytes[1] = "08" /\ IsNumChunk(bytes[2])
         THEN MessageDecode(SubSeq(bytes, 3, Len(bytes)),
                            [inches |-> NumOfChunk(bytes[2])])
    ELSE [ok |-> FALSE]

\* ServiceRequest::to_proto
RequestToProto(self) ==
    LET r == MessageDecode(self.input, [inches |-> 0]) IN
    IF r.ok THEN [ok |-> TRUE, v |-> CloneWithInput(self, r.v)]
    ELSE [ok |-> FALSE, err |-> RequestBodyErr(self, ErrProstDecode)]

\* ServiceResponse::new
ServiceResponseNew(output) ==
    [version |-> HTTP_11,
     headers |-> HdrInsert(HeaderMapNew, CONTENT_TYPE, PROTOBUF_CONTENT_TYPE),
     status |-> OK, output |-> output]

\* ServiceResponse::to_hyper_raw
ResponseToHyperRaw(self) ==
    HyperResponse(self.status,
        HdrAppend(self.headers, CONTENT_LENGTH, ToString(Len(self.output))),
        self.output)

(***************************************************************************)
(* The service generator: descriptors and the routing URL.                 *)
(***************************************************************************)
Method(name, proto_name, input_type, output_type) ==
    [name |-> name, proto_name |-> proto_name,
     input_type |-> input_type, output_type |-> output_type]

Service(name, package, proto_name, methods) ==
    [name |-> name, package |-> package, proto_name |-> proto_name,
     methods |-> methods]

\* TwirpServiceGenerator::method_url
MethodUrl(service, method) ==
    "/twirp/" \o service.package \o "/" \o service.proto_name
              \o "." \o method.proto_name

\* the service of the examples
Haberdasher ==
    Service("Haberdasher", "twitch.twirp.example", "Haberdasher",
            <<Method("make_hat", "MakeHat", "Size", "Hat")>>)

(***************************************************************************)
(* The generated server adapter (generate_server_impl): handle() matches   *)
(* the request path against one arm per method, in order.                  *)
(***************************************************************************)
\* the index of the first arm whose path literal equals the path, 0 for the
\* wildcard arm
MatchArm(service, path) ==
    LET hits == {i \in 1..Len(service.methods) :
                    MethodUrl(service, service.methods[i]) = path}
    IN  IF hits = {} THEN 0 ELSE CHOOSE i \in hits : \A j \in hits : i <= j

\* ProstTwirpError::NotFound as a response: the Twirp error of the status
\* table, encoded as every Twirp error is
NotFoundResponse ==
    ToRespRaw(TwirpErrorNew(NOT_FOUND, Lit("not_found"),
                            Lit("The requested method was not found")))

\* the user methods the adapter calls for a request: the method of the arm
\* matched, once the body has decoded to its input type
AdapterInvokes(service, sreq) ==
    LET arm == MatchArm(service, sreq.uri) IN
    IF arm # 0 /\ RequestToProto(sreq).ok
    THEN <<service.methods[arm].name>>
    ELSE << >>

(***************************************************************************)
(* What the user's implementation may answer.                              *)
(***************************************************************************)
MinMaxSize == JObj([k \in {"min", "max"} |-> IF k = "min" THEN JNum(1) ELSE JNum(10)])

TwirpErrors ==
    { TwirpErrorNewMeta(BAD_REQUEST, Lit("too_small"), Lit("Size too small"),
                        Some(MinMaxSize)),
      TwirpErrorNew(NOT_FOUND, <<"a", QUOTE, "b">>, <<BACKSLASH>>),
      TwirpErrorNewMeta(INTERNAL_SERVER_ERROR, << >>, Lit("null"),
                        Some(JStr(<<QUOTE, "}", BACKSLASH>>))),
      TwirpErrorNewMeta(OK, Lit("odd"), << >>, Some(JNull)) }

HyperErrors == {"hyper-1", "hyper-2"}

RootErrors ==
    {ErrTwirp(e) : e \in TwirpErrors} \cup {ErrHyper(h) : h \in HyperErrors}
    \cup {ErrJsonDecode, ErrProstEncode, ErrProstDecode, ErrInvalidUri}

\* err under n AfterBodyError layers, each made by body_err of the request
RECURSIVE Wrapped(_, _, _)
Wrapped(sreq, err, n) ==
    IF n = 0 THEN err ELSE RequestBodyErr(sreq, Wrapped(sreq, err, n - 1))

HatBytes == <<"08", "5", "12", "blue", "1A", "fedora">>

UserResponses ==
    { ServiceResponseNew(HatBytes),
      [ServiceResponseNew(<< >>) EXCEPT !.status = 201] }

UserResults(sreq) ==
    {[ok |-> TRUE, v |-> r] : r \in UserResponses}
    \cup {[ok |-> FALSE, err |-> Wrapped(sreq, e, n)] :
             e \in RootErrors, n \in 0..MaxWrap}

\* what the future returned by the adapter's handle() may resolve to
HandleResults(service, sreq) ==
    LET arm == MatchArm(service, sreq.uri)
        typed == RequestToProto(sreq)
    IN  IF arm = 0 THEN {[ok |-> TRUE, v |-> NotFoundResponse]}
        ELSE IF ~typed.ok THEN {[ok |-> FALSE, err |-> typed.err]}
        ELSE UserResults(sreq)

(***************************************************************************)
(* HyperServer::call.                                                      *)
(***************************************************************************)
Ready(resp) == [ok |-> TRUE, resp |-> resp]
Failed(err) == [ok |-> FALSE, err |-> err]

MethodNotAllowed ==
    TwirpErrorNew(METHOD_NOT_ALLOWED, Lit("bad_method"), Lit("Method must be POST"))
BadContentType ==
    TwirpErrorNew(UNSUPPORTED_MEDIA_TYPE, Lit("bad_content_type"),
                  Lit("Content type must be application/protobuf"))
ProtobufDecodeErr ==
    TwirpErrorNew(BAD_REQUEST, Lit("protobuf_decode_err"), Lit("Invalid protobuf body"))
InternalErr ==
    TwirpErrorNew(INTERNAL_SERVER_ERROR, Lit("internal_err"), Lit("Internal Error"))

\* the content type test of call: the first Content-Type value, compared
ContentTypeAccepted(req) ==
    LET v == HdrGet(req.headers, CONTENT_TYPE)
        m == IF IsSome(v) THEN Some(Unwrap(v) = JSON_CONTENT_TYPE) ELSE None
    IN  m = Some(TRUE)

\* the early answers of call with the content type tested first
EarlyAnswerContentTypeFirst(req) ==
    IF ~ContentTypeAccepted(req) THEN Some(Ready(ToHyperResp(BadContentType)))
    ELSE IF req.method # "POST" THEN Some(Ready(ToHyperResp(MethodNotAllowed)))
    ELSE None

\* the two early answers of call; None when the request goes to the handler
EarlyAnswer(req) ==
    IF req.method # "POST" THEN Some(Ready(ToHyperResp(MethodNotAllowed)))
    ELSE IF ~ContentTypeAccepted(req) THEN Some(Ready(ToHyperResp(BadContentType)))
    ELSE None

\* the or_else of call answering a hyper error like any internal failure
MapHandlerResultHyperAsInternal(res) ==
    IF res.ok THEN Ready(ResponseToHyperRaw(res.v))
    ELSE LET root == RootErr(res.err) IN
         CASE root.kind = "ProstDecodeError" -> Ready(ToHyperResp(ProtobufDecodeErr))
           [] root.kind = "TwirpError" -> Ready(ToHyperResp(root.e))
           [] OTHER -> Ready(ToHyperResp(InternalErr))

\* the map / or_else applied to what the handler's future resolved to
MapHandlerResult(res) ==
    IF res.ok THEN Ready(ResponseToHyperRaw(res.v))
    ELSE LET root == RootErr(res.err) IN
         CASE root.kind = "ProstDecodeError" -> Ready(ToHyperResp(ProtobufDecodeErr))
           [] root.kind = "TwirpError" -> Ready(ToHyperResp(root.e))
           [] root.kind = "HyperError" -> Failed(root.h)
           [] OTHER -> Ready(ToHyperResp(InternalErr))

Slots == 1..MaxInFlight
HttpMethods == {"POST", "GET"}
ContentTypes == {None, Some(PROTOBUF_CONTENT_TYPE), Some(JSON_CONTENT_TYPE),
                 Some("text/plain")}
UnknownPath == "/twirp/twitch.twirp.example.Haberdasher/Unknown"
RoutedPaths == {MethodUrl(Haberdasher, Haberdasher.methods[i]) :
                   i \in 1..Len(Haberdasher.methods)}
SizeBytes == <<"08", "5">>
CorruptBytes == <<"FF">>
\* a routed path with a body that decodes and with one that does not, and a
\* path no arm matches
PathsAndBodies ==
    (RoutedPaths \X {SizeBytes, CorruptBytes}) \cup {<<UnknownPath, SizeBytes>>}

Requests ==
    {HyperRequest(m, pb[1],
        IF IsSome(ct) THEN HdrInsert(HeaderMapNew, CONTENT_TYPE, Unwrap(ct))
        ELSE HeaderMapNew, pb[2]) :
     m \in HttpMethods, pb \in PathsAndBodies, ct \in ContentTypes}

\* the transport hands a request to call(), which answers it at once or
\* builds the future that will forward it
Call(id, req) ==
    /\ pc[id] = "new"
    /\ request' = [request EXCEPT ![id] = Some(req)]
    /\ LET early == EarlyAnswer(req) IN
       IF IsSome(early)
       THEN /\ outcome' = [outcome EXCEPT ![id] = early]
            /\ pc' = [pc EXCEPT ![id] = "done"]
       ELSE /\ outcome' = outcome
            /\ pc' = [pc EXCEPT ![id] = "created"]
    /\ UNCHANGED <<handled, invoked, result, gen_vars, lib_vars>>

\* the first poll of the future: handle() is called with the request, and the
\* adapter routes it
Poll(id) ==
    /\ pc[id] = "created"
    /\ LET sreq == FromHyperRaw(Unwrap(request[id])) IN
       /\ handled' = [handled EXCEPT ![id] = Append(@, sreq)]
       /\ invoked' = [invoked EXCEPT ![id] = @ \o AdapterInvokes(Haberdasher, sreq)]
    /\ pc' = [pc EXCEPT ![id] = "pending"]
    /\ UNCHANGED <<request, result, outcome, gen_vars, lib_vars>>

\* a dispatcher that keeps the last response in a field of the server and
\* answers from it
ResolveFromSharedField(id) ==
    /\ pc[id] = "pending"
    /\ \E res \in HandleResults(Haberdasher, handled[id][1]) :
          /\ result' = [result EXCEPT ![id] = Some(res)]
          /\ outcome' = [s \in Slots |->
                           IF s = id \/ pc[s] = "done"
                           THEN Some(MapHandlerResult(res)) ELSE outcome[s]]
    /\ pc' = [pc EXCEPT ![id] = "done"]
    /\ UNCHANGED <<request, handled, invoked, gen_vars, lib_vars>>

\* the handler's future resolves and call's future with it
Resolve(id) ==
    /\ pc[id] = "pending"
    /\ \E res \in HandleResults(Haberdasher, handled[id][1]) :
          /\ result' = [result EXCEPT ![id] = Some(res)]
          /\ outcome' = [outcome EXCEPT ![id] = Some(MapHandlerResult(res))]
    /\ pc' = [pc EXCEPT ![id] = "done"]
    /\ UNCHANGED <<request, handled, invoked, gen_vars, lib_vars>>

Init ==
    /\ pc = [id \in Slots |-> "new"]
    /\ request = [id \in Slots |-> None]
    /\ handled = [id \in Slots |-> << >>]
    /\ invoked = [id \in Slots |-> << >>]
    /\ result = [id \in Slots |-> None]
    /\ outcome = [id \in Slots |-> None]
    /\ embed_client = FALSE
    /\ buf = << >>
    /\ generated = << >>
    /\ gen_pc = "generate"
    /\ fn_arg = NoCall /\ fn_ret = << >> /\ clients = << >> /\ env = NoEnvelope

Next ==
    \/ \E id \in Slots, req \in Requests : Call(id, req)
    \/ \E id \in Slots : Poll(id)
    \/ \E id \in Slots : Resolve(id)

Spec == Init /\ [][Next]_vars

(***************************************************************************)
(* TwirpServiceGenerator.  The buffer is a sequence of emitted items, one  *)
(* per generate_* call that pushes text, each holding what the text names. *)
(***************************************************************************)
\* TwirpServiceGenerator::prost_twirp_mod
ProstTwirpMod(embed) == IF embed THEN "prost_twirp" ELSE "::prost_twirp"

\* a path that is the external crate's whatever embed_client says
ProstTwirpPathExternal(embed) == "::" \o "prost_twirp"

\* TwirpServiceGenerator::prost_twirp_path
ProstTwirpPath(embed) == IF embed THEN "prost_twirp" ELSE "::" \o "prost_twirp"

\* TwirpServiceGenerator::method_sig
MethodSig(embed, method) ==
    "fn " \o method.name \o "(&self, i: " \o ProstTwirpMod(embed) \o "::PTReq<"
          \o method.input_type \o ">) -> " \o ProstTwirpMod(embed) \o "::PTRes<"
          \o method.output_type \o ">"

\* generate_imports pushes the empty token stream
GenerateImports(b) == b

GenerateTypeAliases(embed, b) ==
    Append(b, [kind |-> "type_aliases", root |-> ProstTwirpMod(embed)])

GenerateMainTrait(embed, service, b) ==
    Append(b, [kind |-> "trait", name |-> service.name,
               sigs |-> [i \in 1..Len(service.methods) |->
                            MethodSig(embed, service.methods[i])]])

GenerateMainImpl(embed, service, b) ==
    Append(b, [kind |-> "main_impl", name |-> service.name,
               client |-> service.name \o "Client",
               server |-> service.name \o "Server",
               root |-> ProstTwirpPath(embed)])

GenerateClientStruct(embed, service, b) ==
    Append(b, [kind |-> "client_struct", name |-> service.name \o "Client",
               root |-> ProstTwirpMod(embed)])

GenerateClientImpl(embed, service, b) ==
    Append(b, [kind |-> "client_impl", name |-> service.name,
               methods |-> [i \in 1..Len(service.methods) |->
                   [sig |-> MethodSig(embed, service.methods[i]),
                    url |-> MethodUrl(service, service.methods[i])]]])

GenerateServerStruct(service, b) ==
    Append(b, [kind |-> "server_struct", name |-> service.name \o "Server"])

\* a match case whose path is written out in the Twirp order, not taken from
\* method_url
MatchCaseWithOwnPath(embed, service, method) ==
    [path |-> "/twirp/" \o service.package \o "." \o service.proto_name
                        \o "/" \o method.proto_name,
     method_name |-> method.name,
     root |-> ProstTwirpPath(embed)]

\* TwirpServiceGenerator::method_server_impl_match_case
MethodServerImplMatchCase(embed, service, method) ==
    [path |-> MethodUrl(service, method), method_name |-> method.name,
     root |-> ProstTwirpPath(embed)]

GenerateServerImpl(embed, service, b) ==
    Append(b, [kind |-> "server_impl", name |-> service.name,
               server |-> service.name \o "Server",
               root |-> ProstTwirpPath(embed),
               arms |-> [i \in 1..Len(service.methods) |->
                   MethodServerImplMatchCase(embed, service, service.methods[i])]])

\* ServiceGenerator::generate
Generate(service) ==
    /\ gen_pc = "generate"
    /\ Len(generated) < MaxServices
    /\ generated' = Append(generated, service)
    /\ buf' = GenerateServerImpl(embed_client, service,
                GenerateServerStruct(service,
                  GenerateClientImpl(embed_client, service,
                    GenerateClientStruct(embed_client, service,
                      GenerateMainImpl(embed_client, service,
                        GenerateMainTrait(embed_client, service,
                          GenerateTypeAliases(embed_client,
                            GenerateImports(buf))))))))
    /\ UNCHANGED <<embed_client, gen_pc, srv_vars, lib_vars>>

\* ServiceGenerator::finalize
Finalize ==
    /\ gen_pc = "generate"
    /\ buf' = IF embed_client
              THEN Append(buf, [kind |-> "embedded_runtime", name |-> "prost_twirp",
                                source |-> "service_run.rs"])
              ELSE buf
    /\ gen_pc' = "finalized"
    /\ UNCHANGED <<embed_client, generated, srv_vars, lib_vars>>

MakeHat == Method("make_hat", "MakeHat", "Size", "Hat")
GetHat == Method("get_hat", "GetHat", "HatId", "Hat")

Services ==
    {Service(n[1], p, n[2], ms) :
        n \in {<<"Haberdasher", "Haberdasher">>, <<"Api", "API">>},
        p \in {"twitch.twirp.example", "pkg"},
        ms \in {<< >>, <<MakeHat>>, <<MakeHat, GetHat>>}}

InitGen ==
    /\ pc = [id \in Slots |-> "new"]
    /\ request = [id \in Slots |-> None]
    /\ handled = [id \in Slots |-> << >>]
    /\ invoked = [id \in Slots |-> << >>]
    /\ result = [id \in Slots |-> None]
    /\ outcome = [id \in Slots |-> None]
    /\ embed_client \in BOOLEAN
    /\ buf = << >>
    /\ generated = << >>
    /\ gen_pc = "generate"
    /\ fn_arg = NoCall /\ fn_ret = << >> /\ clients = << >> /\ env = NoEnvelope

NextGen ==
    \/ \E service \in Services : Generate(service)
    \/ Finalize

SpecGen == InitGen /\ [][NextGen]_vars

(***************************************************************************)
(* ServiceResponse as the client reads it.                                 *)
(***************************************************************************)
\* ServiceResponse::clone_with_output
CloneWithOutput(self, output) ==
    [version |-> self.version, headers |-> self.headers,
     status |-> self.status, output |-> output]

\* ServiceResponse::from_hyper_raw once the body has been read
ResponseFromHyperRaw(resp) ==
    [version |-> resp.version, headers |-> resp.headers,
     status |-> resp.status, output |-> resp.body]

\* ServiceResponse::body_err
ResponseBodyErr(self, err) ==
    AfterBodyError(self.output, None, self.version, self.headers,
                   Some(self.status), err)

\* ServiceResponse::to_proto
ResponseToProto(self) ==
    IF IsSuccess(self.status)
    THEN LET r == MessageDecode(self.output, [inches |-> 0]) IN
         IF r.ok THEN [ok |-> TRUE, v |-> CloneWithOutput(self, r.v)]
         ELSE [ok |-> FALSE, err |-> ResponseBodyErr(self, ErrProstDecode)]
    ELSE LET r == FromJsonBytes(self.status, self.output) IN
         IF r.ok THEN [ok |-> FALSE, err |-> ResponseBodyErr(self, ErrTwirp(r.v))]
         ELSE [ok |-> FALSE, err |-> ResponseBodyErr(self, ErrJsonDecode)]

(***************************************************************************)
(* Calls of the runtime's functions on values of every shape: fn_arg is    *)
(* what the caller holds, fn_ret what the calls made so far returned.      *)
(***************************************************************************)
ServerIdle ==
    /\ pc = [id \in Slots |-> "new"]
    /\ request = [id \in Slots |-> None]
    /\ handled = [id \in Slots |-> << >>]
    /\ invoked = [id \in Slots |-> << >>]
    /\ result = [id \in Slots |-> None]
    /\ outcome = [id \in Slots |-> None]

GeneratorIdle ==
    /\ embed_client = FALSE
    /\ buf = << >>
    /\ generated = << >>
    /\ gen_pc = "generate"

EmptyObject == JObj([x \in {} |-> JNull])

\* text with and without the characters JSON escapes
TextInputs ==
    { << >>, Lit("too_small"), <<"a", QUOTE, "b">>, <<BACKSLASH>>,
      <<BACKSLASH, QUOTE>>, Lit("null"), Lit("{") }

MetaInputs ==
    { None, Some(JNull), Some(JNum(0)), Some(JNum(MaxNum)), Some(JStr(<<QUOTE>>)),
      Some(JStr(<< >>)), Some(EmptyObject), Some(MinMaxSize),
      Some(JObj([k \in {"error_type", "meta"} |->
                   IF k = "meta" THEN JNull ELSE JStr(Lit("inner"))])),
      Some(JObj([k \in {"msg"} |-> MinMaxSize])) }

TwirpErrorInputs ==
    { TwirpErrorNewMeta(s, t, m, meta) :
        s \in {OK, BAD_REQUEST, INTERNAL_SERVER_ERROR},
        t \in TextInputs, m \in TextInputs, meta \in MetaInputs }

\* the values a member of a JSON object is given, of every JSON type
MemberInputs ==
    { JNull, JNum(MaxNum), JStr(Lit("bad_route")), JStr(<<QUOTE>>), MinMaxSize }

\* the JSON objects over the keys error_type, msg, meta and min
ObjectInputs ==
    { JObj(o) : o \in UNION { [ks -> MemberInputs] :
                               ks \in SUBSET {"error_type", "msg", "meta", "min"} } }

\* a layer of AfterBodyError as ServiceRequest::body_err or
\* ServiceResponse::body_err makes it
WrapLayer(side, err) ==
    IF side = "request"
    THEN RequestBodyErr(ServiceRequestNew(CorruptBytes), err)
    ELSE ResponseBodyErr([ServiceResponseNew(CorruptBytes)
                            EXCEPT !.status = NOT_FOUND], err)

\* root under the layers, the first of which is the outermost
RECURSIVE Nest(_, _)
Nest(layers, root) ==
    IF layers = << >> THEN root
    ELSE WrapLayer(Head(layers), Nest(Tail(layers), root))

LayerInputs == UNION { [1..n -> {"request", "response"}] : n \in 0..MaxWrap }

ResponseStatuses == {100, OK, 201, 299, 300, BAD_REQUEST, NOT_FOUND, 599}

ResponseBodies ==
    { << >>, SizeBytes, CorruptBytes, <<"5">>, <<"null">>, <<"{", "}">>,
      <<"{", QUOTE, "msg", QUOTE, ":", QUOTE, "gone", QUOTE, ",">>,
      ErrorBody(TwirpErrorNewMeta(NOT_FOUND, Lit("bad_route"), <<"no ", QUOTE>>,
                                  Some(MinMaxSize))) }

HyperResponses ==
    { HyperResponse(s, HdrInsert(HeaderMapNew, CONTENT_TYPE, ct), b) :
        s \in ResponseStatuses, b \in ResponseBodies,
        ct \in {PROTOBUF_CONTENT_TYPE, JSON_CONTENT_TYPE} }

CallInputs ==
    {[op |-> "to_json_bytes", e |-> e] : e \in TwirpErrorInputs}
    \cup {[op |-> "from_json", status |-> s, json |-> j] :
             s \in {OK, NOT_FOUND}, j \in ObjectInputs}
    \cup {[op |-> "root_err", root |-> r, layers |-> l, err |-> Nest(l, r)] :
             r \in RootErrors, l \in LayerInputs}
    \cup {[op |-> "from_hyper_proto", resp |-> r] : r \in HyperResponses}

\* TwirpError::to_json_bytes on the error held
ToJsonBytesCall ==
    /\ fn_arg.op = "to_json_bytes" /\ fn_ret = << >>
    /\ fn_ret' = <<ToJsonBytes(fn_arg.e)>>
    /\ UNCHANGED <<fn_arg, clients, env, srv_vars, gen_vars>>

\* TwirpError::from_json_bytes on the bytes to_json_bytes returned
FromJsonBytesCall ==
    /\ fn_arg.op = "to_json_bytes" /\ Len(fn_ret) = 1 /\ fn_ret[1].ok
    /\ fn_ret' = Append(fn_ret, FromJsonBytes(fn_arg.e.status, fn_ret[1].v))
    /\ UNCHANGED <<fn_arg, clients, env, srv_vars, gen_vars>>

\* TwirpError::from_json on the status and object held
FromJsonCall ==
    /\ fn_arg.op = "from_json" /\ fn_ret = << >>
    /\ fn_ret' = <<FromJson(fn_arg.status, fn_arg.json)>>
    /\ UNCHANGED <<fn_arg, clients, env, srv_vars, gen_vars>>

\* ProstTwirpError::root_err, on the error held and then on what it returned
RootErrCall ==
    /\ fn_arg.op = "root_err" /\ Len(fn_ret) < 2
    /\ fn_ret' = Append(fn_ret,
                   RootErr(IF fn_ret = << >> THEN fn_arg.err ELSE fn_ret[1]))
    /\ UNCHANGED <<fn_arg, clients, env, srv_vars, gen_vars>>

\* ServiceResponse::from_hyper_raw: the body is read, or reading it fails
ResponseFromHyperRawCall ==
    /\ fn_arg.op = "from_hyper_proto" /\ fn_ret = << >>
    /\ \/ fn_ret' = <<[ok |-> TRUE, v |-> ResponseFromHyperRaw(fn_arg.resp)]>>
       \/ \E h \in HyperErrors : fn_ret' = <<[ok |-> FALSE, err |-> ErrHyper(h)]>>
    /\ UNCHANGED <<fn_arg, clients, env, srv_vars, gen_vars>>

\* ServiceResponse::to_proto on what from_hyper_raw returned
ResponseToProtoCall ==
    /\ fn_arg.op = "from_hyper_proto" /\ Len(fn_ret) = 1 /\ fn_ret[1].ok
    /\ fn_ret' = Append(fn_ret, ResponseToProto(fn_ret[1].v))
    /\ UNCHANGED <<fn_arg, clients, env, srv_vars, gen_vars>>

InitCalls ==
    /\ ServerIdle /\ GeneratorIdle
    /\ fn_arg \in CallInputs
    /\ fn_ret = << >>
    /\ clients = << >>
    /\ env = NoEnvelope

NextCalls ==
    \/ ToJsonBytesCall
    \/ FromJsonBytesCall
    \/ FromJsonCall
    \/ RootErrCall
    \/ ResponseFromHyperRawCall
    \/ ResponseToProtoCall

SpecCalls == InitCalls /\ [][NextCalls]_vars

(***************************************************************************)
(* Encoding a ServiceRequest, and HyperClient.  The text of a URL is a     *)
(* sequence of chunks in which every '/' is a chunk of its own.            *)
(***************************************************************************)
\* prost's encode of Size { int32 inches = 1; }: a field holding the default
\* is left out; encoding into a Vec does not fail
MessageEncode(m) ==
    [ok |-> TRUE,
     v |-> IF m.inches = 0 THEN << >> ELSE <<"08", ToString(m.inches)>>]

\* ServiceRequest::to_proto_raw
RequestToProtoRaw(self) ==
    LET r == MessageEncode(self.input) IN
    IF r.ok THEN [ok |-> TRUE, v |-> CloneWithInput(self, r.v)]
    ELSE [ok |-> FALSE, err |-> ErrProstEncode]

\* to_hyper_raw starting from an empty header map
RequestToHyperRawFreshHeaders(self) ==
    HyperRequest("POST", self.uri,
        HdrAppend(HeaderMapNew, CONTENT_LENGTH, ToString(Len(self.input))),
        self.input)

\* ServiceRequest::to_hyper_raw
RequestToHyperRaw(self) ==
    HyperRequest("POST", self.uri,
        HdrAppend(self.headers, CONTENT_LENGTH, ToString(Len(self.input))),
        self.input)

\* ServiceRequest::to_hyper_proto
RequestToHyperProto(self) ==
    LET r == RequestToProtoRaw(self) IN
    IF r.ok THEN [ok |-> TRUE, v |-> RequestToHyperRaw(r.v)] ELSE r

SLASH == "/"
\* a character no URI may hold
SPACE == " "

\* trim_end_matches taking off one '/' at most
TrimEndOnce(s) ==
    IF s # << >> /\ s[Len(s)] = SLASH THEN SubSeq(s, 1, Len(s) - 1) ELSE s

\* str::trim_end_matches('/')
RECURSIVE TrimEndMatches(_)
TrimEndMatches(s) ==
    IF s # << >> /\ s[Len(s)] = SLASH
    THEN TrimEndMatches(SubSeq(s, 1, Len(s) - 1))
    ELSE s

\* str::trim_start_matches('/')
RECURSIVE TrimStartMatches(_)
TrimStartMatches(s) ==
    IF s # << >> /\ Head(s) = SLASH THEN TrimStartMatches(Tail(s)) ELSE s

\* str::parse::<Uri>: the text as it is, unless it holds a character no URI may
UriParse(text) ==
    IF \E i \in 1..Len(text) : text[i] = SPACE THEN [ok |-> FALSE]
    ELSE [ok |-> TRUE, v |-> text]

\* HyperClient::new: the root_url field
HyperClientNew(root_url) == TrimEndMatches(root_url)

\* HyperClient::go up to the request it hands to the hyper client
GoRequest(root_url, path, req) ==
    LET uri == UriParse(root_url \o <<SLASH>> \o TrimStartMatches(path))
        hyper_req == RequestToHyperProto(req)
    IN  IF ~uri.ok THEN [ok |-> FALSE, err |-> ErrInvalidUri]
        ELSE IF ~hyper_req.ok THEN hyper_req
        ELSE [ok |-> TRUE, v |-> [hyper_req.v EXCEPT !.uri = uri.v]]

\* the two clients: one made with a root URL, one with that root URL and "/"
ClientIds == {"r", "r/"}

RootUrls ==
    { << >>,
      <<"http:", SLASH, SLASH, "x">>,
      <<"http:", SLASH, SLASH, "x", SLASH>>,
      <<"http:", SLASH, SLASH, "x", SLASH, "api">>,
      <<"http:", SLASH, SLASH, "x", SLASH, "api", SLASH, SLASH>>,
      <<"http:", SLASH, SLASH, "x", SPACE>> }

GoPaths ==
    { <<SLASH, "twirp", SLASH, "pkg.Svc", SLASH, "M">>,
      <<"twirp", SLASH, "pkg.Svc", SLASH, "M">>,
      <<SLASH, SLASH, "twirp", SLASH, "pkg.Svc", SLASH, "M">>,
      <<SLASH, "twirp", SLASH, SPACE>>,
      << >> }

GoRequests ==
    { ServiceRequestNew([inches |-> MaxNum]),
      [ServiceRequestNew([inches |-> MaxNum]) EXCEPT !.uri = "/twirp/other"],
      ServiceRequestNew([inches |-> 0]) }

\* what the server may send back
ClientReplies ==
    { HyperResponse(OK, HdrInsert(HeaderMapNew, CONTENT_TYPE, PROTOBUF_CONTENT_TYPE),
                    SizeBytes),
      ToHyperResp(TwirpErrorNew(NOT_FOUND, Lit("bad_route"), Lit("no such route"))) }

\* HyperClient::new
ClientNew(c) ==
    /\ clients[c].root_url = None
    /\ clients' = [clients EXCEPT ![c].root_url = Some(HyperClientNew(clients[c].ctor))]
    /\ UNCHANGED <<fn_arg, fn_ret, env, srv_vars, gen_vars>>

\* HyperClient::go: an error at once, or the request is on its way
Go(c, path, req) ==
    /\ IsSome(clients[c].root_url) /\ clients[c].call = None
    /\ LET r == GoRequest(Unwrap(clients[c].root_url), path, req) IN
       clients' = [clients EXCEPT
                      ![c].call = Some([path |-> path, req |-> req]),
                      ![c].sent = IF r.ok THEN Some(r.v) ELSE None,
                      ![c].ret = IF r.ok THEN None ELSE Some(r)]
    /\ UNCHANGED <<fn_arg, fn_ret, env, srv_vars, gen_vars>>

\* the future go returned resolves: the transport failed, or a response came
\* and ServiceResponse::from_hyper_proto read it
Reply(c) ==
    /\ IsSome(clients[c].sent) /\ clients[c].ret = None
    /\ \E r \in {[ok |-> FALSE, err |-> ErrHyper(h)] : h \in HyperErrors}
               \cup {ResponseToProto(ResponseFromHyperRaw(resp)) :
                        resp \in ClientReplies} :
          clients' = [clients EXCEPT ![c].ret = Some(r)]
    /\ UNCHANGED <<fn_arg, fn_ret, env, srv_vars, gen_vars>>

InitClient ==
    /\ ServerIdle /\ GeneratorIdle
    /\ fn_arg = NoCall /\ fn_ret = << >> /\ env = NoEnvelope
    /\ \E r \in RootUrls :
          clients = [c \in ClientIds |->
                       [ctor |-> IF c = "r" THEN r ELSE r \o <<SLASH>>,
                        root_url |-> None, call |-> None,
                        sent |-> None, ret |-> None]]

NextClient ==
    \/ \E c \in ClientIds : ClientNew(c)
    \/ \E c \in ClientIds, path \in GoPaths, req \in GoRequests : Go(c, path, req)
    \/ \E c \in ClientIds : Reply(c)

SpecClient == InitClient /\ [][NextClient]_vars

(***************************************************************************)
(* The operations of ServiceRequest applied one after another.  env holds  *)
(* the value in hand (kind "typed": ServiceRequest<Size>, "raw":           *)
(* ServiceRequest<Vec<u8>>, "hyper": Request<Body>, "error"), the          *)
(* operations that made it, and the request ServiceRequest::new returned   *)
(* if the first of them was new.                                           *)
(***************************************************************************)
Messages == {[inches |-> n] : n \in 0..MaxNum}

\* ServiceRequest::new
New(m) ==
    /\ env.kind = "none"
    /\ env' = Envelope("typed", ServiceRequestNew(m), <<"new">>,
                       Some(ServiceRequestNew(m)))
    /\ UNCHANGED <<fn_arg, fn_ret, clients, srv_vars, gen_vars>>

\* ServiceRequest::from_hyper_raw on a request that came in
FromHyperRawOp(req) ==
    /\ env.kind = "none"
    /\ env' = Envelope("raw", FromHyperRaw(req), <<"from_hyper_raw">>, None)
    /\ UNCHANGED <<fn_arg, fn_ret, clients, srv_vars, gen_vars>>

\* ServiceRequest::from_hyper_body_request on a request that came in, whose
\* body may fail to arrive, or on the request to_hyper_raw built, whose body
\* is at hand
FromHyperBodyRequestOp ==
    /\ Len(env.ops) < MaxOps
    /\ \/ /\ env.kind = "none"
          /\ \E req \in Requests :
                \/ env' = Envelope("raw", FromHyperRaw(req),
                                   <<"from_hyper_body_request">>, None)
                \/ \E h \in HyperErrors :
                      env' = Envelope("error", ErrHyper(h),
                                      <<"from_hyper_body_request">>, None)
       \/ /\ env.kind = "hyper"
          /\ env' = Envelope("raw", FromHyperRaw(env.v),
                             Append(env.ops, "from_hyper_body_request"), env.made)
    /\ UNCHANGED <<fn_arg, fn_ret, clients, srv_vars, gen_vars>>

\* ServiceRequest::clone_with_input
CloneWithInputOp ==
    /\ Len(env.ops) < MaxOps
    /\ \/ /\ env.kind = "typed"
          /\ \E m \in {[inches |-> 0], [inches |-> MaxNum]} :
                env' = Envelope("typed", CloneWithInput(env.v, m),
                                Append(env.ops, "clone_with_input"), env.made)
       \/ /\ env.kind = "raw"
          /\ \E b \in {SizeBytes, CorruptBytes} :
                env' = Envelope("raw", CloneWithInput(env.v, b),
                                Append(env.ops, "clone_with_input"), env.made)
    /\ UNCHANGED <<fn_arg, fn_ret, clients, srv_vars, gen_vars>>

\* ServiceRequest::to_proto_raw
ToProtoRawOp ==
    /\ Len(env.ops) < MaxOps /\ env.kind = "typed"
    /\ LET r == RequestToProtoRaw(env.v) IN
       env' = Envelope(IF r.ok THEN "raw" ELSE "error",
                       IF r.ok THEN r.v ELSE r.err,
                       Append(env.ops, "to_proto_raw"), env.made)
    /\ UNCHANGED <<fn_arg, fn_ret, clients, srv_vars, gen_vars>>

\* ServiceRequest::to_hyper_raw
ToHyperRawOp ==
    /\ Len(env.ops) < MaxOps /\ env.kind = "raw"
    /\ env' = Envelope("hyper", RequestToHyperRaw(env.v),
                       Append(env.ops, "to_hyper_raw"), env.made)
    /\ UNCHANGED <<fn_arg, fn_ret, clients, srv_vars, gen_vars>>

\* ServiceRequest::to_proto
ToProtoOp ==
    /\ Len(env.ops) < MaxOps /\ env.kind = "raw"
    /\ LET r == RequestToProto(env.v) IN
       env' = Envelope(IF r.ok THEN "typed" ELSE "error",
                       IF r.ok THEN r.v ELSE r.err,
                       Append(env.ops, "to_proto"), env.made)
    /\ UNCHANGED <<fn_arg, fn_ret, clients, srv_vars, gen_vars>>

InitEnvelope ==
    /\ ServerIdle /\ GeneratorIdle
    /\ fn_arg = NoCall /\ fn_ret = << >> /\ clients = << >>
    /\ env = NoEnvelope

NextEnvelope ==
    \/ \E m \in Messages : New(m)
    \/ \E req \in Requests : FromHyperRawOp(req)
    \/ FromHyperBodyRequestOp
    \/ CloneWithInputOp
    \/ ToProtoRawOp
    \/ ToHyperRawOp
    \/ ToProtoOp

SpecEnvelope == InitEnvelope /\ [][NextEnvelope]_vars

(***************************************************************************)
(* Raw envelopes turned into HTTP messages.                                *)
(***************************************************************************)
\* ServiceResponse::to_hyper_body_raw: to_hyper_raw with the body as a Body
ResponseToHyperBodyRaw(self) ==
    HyperResponse(self.status,
        HdrAppend(self.headers, CONTENT_LENGTH, ToString(Len(self.output))),
        self.output)

\* requests as a transport delivers them: Content-Length says the body's length
RequestsWithLength ==
    { HyperRequest("POST", pb[1],
        HdrInsert(HdrInsert(HeaderMapNew, CONTENT_TYPE, PROTOBUF_CONTENT_TYPE),
                  CONTENT_LENGTH, ToString(Len(pb[2]))),
        pb[2]) : pb \in PathsAndBodies }

\* raw requests: new ones encoded, and received ones, as they came or given
\* another body
RawRequests ==
    { RequestToProtoRaw(ServiceRequestNew(m)).v : m \in Messages }
    \cup { FromHyperRaw(req) : req \in RequestsWithLength }
    \cup { CloneWithInput(FromHyperRaw(req), b) :
             req \in RequestsWithLength, b \in {<< >>, HatBytes} }

\* raw responses: of the handler, and of Twirp errors
RawResponses ==
    { ServiceResponseNew(b) : b \in {<< >>, SizeBytes, HatBytes} }
    \cup { ToRespRaw(e) : e \in TwirpErrorInputs }

SerializeInputs ==
    {[op |-> "request_to_hyper", sreq |-> r] : r \in RawRequests}
    \cup {[op |-> "response_to_hyper", sresp |-> r] : r \in RawResponses}

\* ServiceRequest::to_hyper_raw on the request held
RequestToHyperRawCall ==
    /\ fn_arg.op = "request_to_hyper" /\ fn_ret = << >>
    /\ fn_ret' = <<[by |-> "to_hyper_raw", msg |-> RequestToHyperRaw(fn_arg.sreq)]>>
    /\ UNCHANGED <<fn_arg, clients, env, srv_vars, gen_vars>>

\* ServiceResponse::to_hyper_raw on the response held
ResponseToHyperRawCall ==
    /\ fn_arg.op = "response_to_hyper" /\ fn_ret = << >>
    /\ fn_ret' = <<[by |-> "to_hyper_raw", msg |-> ResponseToHyperRaw(fn_arg.sresp)]>>
    /\ UNCHANGED <<fn_arg, clients, env, srv_vars, gen_vars>>

\* ServiceResponse::to_hyper_body_raw on the response held
ResponseToHyperBodyRawCall ==
    /\ fn_arg.op = "response_to_hyper" /\ fn_ret = << >>
    /\ fn_ret' = <<[by |-> "to_hyper_body_raw",
                    msg |-> ResponseToHyperBodyRaw(fn_arg.sresp)]>>
    /\ UNCHANGED <<fn_arg, clients, env, srv_vars, gen_vars>>

InitSerialize ==
    /\ ServerIdle /\ GeneratorIdle
    /\ fn_arg \in SerializeInputs
    /\ fn_ret = << >>
    /\ clients = << >>
    /\ env = NoEnvelope

NextSerialize ==
    \/ RequestToHyperRawCall
    \/ ResponseToHyperRawCall
    \/ ResponseToHyperBodyRawCall

SpecSerialize == InitSerialize /\ [][NextSerialize]_vars

(***************************************************************************)
(* Properties of the server dispatcher.                                    *)
(***************************************************************************)
\* the innermost cause of an error: what is left once every AfterBodyError
\* layer is taken off
RECURSIVE InnermostCause(_)
InnermostCause(err) ==
    IF err.kind = "AfterBodyError" THEN InnermostCause(err.err) ELSE err

Req(id) == Unwrap(request[id])
Out(id) == Unwrap(outcome[id])
Res(id) == Unwrap(result[id])

IsPost(id) == IsSome(request[id]) /\ Req(id).method = "POST"
ContentTypeIs(id, v) == HdrGet(Req(id).headers, CONTENT_TYPE) = Some(v)
HandlerFailed(id) == IsSome(result[id]) /\ ~Res(id).ok

\* the response is a Twirp JSON error of this status, code and message
IsTwirpResponse(out, status, error_type, msg) ==
    /\ out.ok
    /\ out.resp.status = status
    /\ LET json == FromSlice(out.resp.body) IN
       /\ json.ok
       /\ JIndex(json.v, "error_type") = JStr(Lit(error_type))
       /\ JIndex(json.v, "msg") = JStr(Lit(msg))

\* C1: a POST request with Content-Type application/protobuf is forwarded to
\* the handler: it is never answered without handle() having been called
\* exactly once with the request's URI, headers and body, and when the handler
\* resolves to a ServiceResponse the future resolves Ok to a response with that
\* response's status and body.
C1_ProtobufPostForwarded ==
    \A id \in Slots :
        (IsPost(id) /\ ContentTypeIs(id, PROTOBUF_CONTENT_TYPE)) =>
            /\ pc[id] \in {"pending", "done"} =>
                  /\ Len(handled[id]) = 1
                  /\ handled[id][1].uri = Req(id).uri
                  /\ handled[id][1].headers = Req(id).headers
                  /\ handled[id][1].input = Req(id).body
            /\ (pc[id] = "done" /\ IsSome(result[id]) /\ Res(id).ok) =>
                  /\ Out(id).ok
                  /\ Out(id).resp.status = Res(id).v.status
                  /\ Out(id).resp.body = Res(id).v.output

\* C2: a request whose method is not POST, whatever its path, Content-Type and
\* body, is answered Ok with status 405, error_type "bad_method" and msg
\* "Method must be POST", and the handler is never invoked for it.
C2_NonPostRejected ==
    \A id \in Slots :
        (IsSome(request[id]) /\ Req(id).method # "POST") =>
            /\ pc[id] = "done"
            /\ handled[id] = << >>
            /\ invoked[id] = << >>
            /\ result[id] = None
            /\ IsTwirpResponse(Out(id), METHOD_NOT_ALLOWED, "bad_method",
                               "Method must be POST")

\* a non-POST request the content type test would refuse as well, and one it
\* would let through, have both been answered
C2_Witness ==
    /\ \E id \in Slots : /\ pc[id] = "done" /\ Req(id).method = "GET"
                         /\ ContentTypeIs(id, "text/plain")
    /\ \E id \in Slots : /\ pc[id] = "done" /\ Req(id).method = "GET"
                         /\ ContentTypeAccepted(Req(id))

\* C3: a POST request whose Content-Type is absent or is anything other than
\* application/protobuf is answered with status 415, error_type
\* "bad_content_type" and msg "Content type must be application/protobuf", and
\* the handler is not invoked for it.
C3_WrongContentTypeRejected ==
    \A id \in Slots :
        (IsPost(id) /\ ~ContentTypeIs(id, PROTOBUF_CONTENT_TYPE)) =>
            /\ pc[id] = "done"
            /\ handled[id] = << >>
            /\ IsTwirpResponse(Out(id), UNSUPPORTED_MEDIA_TYPE, "bad_content_type",
                               "Content type must be application/protobuf")

\* C4: every 405 response to a non-POST request carries the header Allow: POST.
C4_MethodNotAllowedCarriesAllow ==
    \A id \in Slots :
        (pc[id] = "done" /\ Req(id).method # "POST" /\ Out(id).ok
           /\ Out(id).resp.status = METHOD_NOT_ALLOWED) =>
            HdrGet(Out(id).resp.headers, "allow") = Some("POST")

\* C5: when the handler resolves to an error whose innermost cause, under any
\* number of AfterBodyError layers, is ProstDecodeError, call resolves Ok to
\* status 400 with error_type "protobuf_decode_err" and msg "Invalid protobuf
\* body"; so does a forwarded request whose body to_proto cannot decode.
C5_DecodeErrorIs400 ==
    \A id \in Slots :
        /\ (HandlerFailed(id) /\ InnermostCause(Res(id).err).kind = "ProstDecodeError") =>
              IsTwirpResponse(Out(id), BAD_REQUEST, "protobuf_decode_err",
                              "Invalid protobuf body")
        /\ (pc[id] = "done" /\ handled[id] # << >>
              /\ MatchArm(Haberdasher, handled[id][1].uri) # 0
              /\ handled[id][1].input = CorruptBytes) =>
              /\ Res(id) = [ok |-> FALSE,
                            err |-> RequestBodyErr(handled[id][1], ErrProstDecode)]
              /\ IsTwirpResponse(Out(id), BAD_REQUEST, "protobuf_decode_err",
                                 "Invalid protobuf body")

\* one request's body failed to decode in to_proto, and another's handler
\* answered a ProstDecodeError under more than one layer
C5_Witness ==
    /\ \E id \in Slots :
          /\ pc[id] = "done" /\ handled[id] # << >>
          /\ handled[id][1].input = CorruptBytes
          /\ HandlerFailed(id) /\ Res(id).err.kind = "AfterBodyError"
          /\ Res(id).err.body = CorruptBytes
    /\ \E id \in Slots :
          /\ pc[id] = "done" /\ HandlerFailed(id)
          /\ Res(id).err.kind = "AfterBodyError"
          /\ Res(id).err.err.kind = "AfterBodyError"
          /\ InnermostCause(Res(id).err) = ErrProstDecode

\* C6: when the handler resolves to a TwirpError e, bare or under
\* AfterBodyError layers, the response has status e.status, Content-Type
\* application/json, and a body that from_json_bytes decodes, with that
\* status, to the error_type, msg and meta of e.
C6_TwirpErrorPassedThrough ==
    \A id \in Slots :
        (HandlerFailed(id) /\ InnermostCause(Res(id).err).kind = "TwirpError") =>
            LET e == InnermostCause(Res(id).err).e IN
            /\ Out(id).ok
            /\ Out(id).resp.status = e.status
            /\ CONTENT_TYPE \in DOMAIN Out(id).resp.headers
            /\ Out(id).resp.headers[CONTENT_TYPE] = <<JSON_CONTENT_TYPE>>
            /\ LET d == FromJsonBytes(Out(id).resp.status, Out(id).resp.body) IN
               /\ d.ok
               /\ d.v.status = e.status
               /\ d.v.error_type = e.error_type
               /\ d.v.msg = e.msg
               /\ d.v.meta = e.meta

\* a wrapped TwirpError with meta and a bare one without, whose strings hold
\* characters JSON escapes, have both been answered
C6_Witness ==
    /\ \E id \in Slots :
          /\ pc[id] = "done" /\ HandlerFailed(id)
          /\ Res(id).err.kind = "AfterBodyError"
          /\ InnermostCause(Res(id).err).kind = "TwirpError"
          /\ InnermostCause(Res(id).err).e.meta = Some(MinMaxSize)
    /\ \E id \in Slots :
          /\ pc[id] = "done" /\ HandlerFailed(id)
          /\ Res(id).err.kind = "TwirpError"
          /\ Res(id).err.e.meta = None
          /\ Res(id).err.e.msg = <<BACKSLASH>>

\* C7: a POST request with Content-Type application/protobuf whose path matches
\* none of the service's routes is answered by the adapter behind the
\* dispatcher with status 404, error_type "not_found" and msg "The requested
\* method was not found", and no method of the user's implementation is called.
C7_UnroutedIs404 ==
    \A id \in Slots :
        (IsPost(id) /\ ContentTypeIs(id, PROTOBUF_CONTENT_TYPE)
           /\ MatchArm(Haberdasher, Req(id).uri) = 0) =>
            /\ invoked[id] = << >>
            /\ pc[id] = "done" =>
                  IsTwirpResponse(Out(id), NOT_FOUND, "not_found",
                                  "The requested method was not found")

\* C8: when the handler resolves to an error whose innermost cause is none of
\* TwirpError, ProstDecodeError and HyperError, the answer has status 500,
\* error_type "internal_err" and msg exactly "Internal error".
C8_OtherErrorsAre500 ==
    \A id \in Slots :
        (HandlerFailed(id)
           /\ InnermostCause(Res(id).err).kind
                 \notin {"TwirpError", "ProstDecodeError", "HyperError"}) =>
            IsTwirpResponse(Out(id), INTERNAL_SERVER_ERROR, "internal_err",
                            "Internal error")

\* C9: the future of call resolves to Err only when the innermost cause of the
\* handler's error is HyperError, and then to that same hyper error; every
\* other outcome, an early answer included, is Ok with an HTTP response.
C9_OnlyHyperErrorsPropagate ==
    \A id \in Slots :
        pc[id] = "done" =>
            LET hyper == /\ HandlerFailed(id)
                         /\ InnermostCause(Res(id).err).kind = "HyperError"
            IN  /\ Out(id).ok <=> ~hyper
                /\ hyper => Out(id).err = InnermostCause(Res(id).err).h

\* a hyper error under two layers came out as the future's error while
\* another request's handler failed otherwise and was answered
C9_Witness ==
    /\ \E id \in Slots :
          /\ pc[id] = "done" /\ HandlerFailed(id)
          /\ Res(id).err.kind = "AfterBodyError"
          /\ Res(id).err.err.kind = "AfterBodyError"
          /\ Res(id).err.err.err = ErrHyper("hyper-2")
          /\ Out(id) = Failed("hyper-2")
    /\ \E id \in Slots :
          /\ pc[id] = "done" /\ HandlerFailed(id)
          /\ Res(id).err = ErrInvalidUri /\ Out(id).ok

(***************************************************************************)
(* Properties of the generator.                                            *)
(***************************************************************************)
\* the items of one kind in the buffer, in order: one per generate() call
ItemsOfKind(kind) == SelectSeq(buf, LAMBDA item : item.kind = kind)

\* the Twirp path of a method: /twirp/<package>.<Service>/<Method>
TwirpPath(p, s, m) == "/twirp/" \o p \o "." \o s \o "/" \o m

\* C10: for every service with package p and proto name s and every method
\* with proto name m, the path the generated client passes to the dispatcher
\* and the path of the generated server's match arm are exactly
\* "/twirp/" + p + "." + s + "/" + m.
C10_MethodUrlExact ==
    \A k \in 1..Len(generated) :
        LET service == generated[k]
            client == ItemsOfKind("client_impl")[k]
            server == ItemsOfKind("server_impl")[k]
        IN  \A i \in 1..Len(service.methods) :
               LET path == TwirpPath(service.package, service.proto_name,
                                     service.methods[i].proto_name)
               IN  /\ client.methods[i].url = path
                   /\ server.arms[i].path = path

(***************************************************************************)
(* Properties of the runtime's functions, under SpecCalls.                 *)
(***************************************************************************)
\* C11: for every TwirpError e, whatever its status, error_type and msg and
\* whether its meta is absent or any JSON value, to_json_bytes succeeds and
\* from_json_bytes(e.status, those bytes) succeeds with an error whose status,
\* error_type, msg and meta equal e's
C11_TwirpErrorJsonRoundTrip ==
    fn_arg.op = "to_json_bytes" =>
        /\ Len(fn_ret) >= 1 => fn_ret[1].ok
        /\ Len(fn_ret) = 2 =>
              /\ fn_ret[2].ok
              /\ fn_ret[2].v.status = fn_arg.e.status
              /\ fn_ret[2].v.error_type = fn_arg.e.error_type
              /\ fn_ret[2].v.msg = fn_arg.e.msg
              /\ fn_ret[2].v.meta = fn_arg.e.meta

\* an error with escaped characters and an object as meta has made the trip
C11_Witness ==
    /\ fn_arg.op = "to_json_bytes" /\ Len(fn_ret) = 2
    /\ fn_arg.e.error_type = <<BACKSLASH, QUOTE>>
    /\ fn_arg.e.msg = <<"a", QUOTE, "b">>
    /\ fn_arg.e.meta = Some(MinMaxSize)

HasKey(json, k) == k \in DOMAIN json.o
HasString(json, k) == k \in DOMAIN json.o /\ json.o[k].t = "str"

\* C12 as stated: for every JSON object j, whatever the JSON types of its
\* members, and every status s, from_json(s, j) has status s; without an
\* error_type key its error_type is "<no code>" and its meta the whole of j;
\* with an error_type key its meta is j's "meta" member when there is one and
\* None otherwise; without a msg key its msg is "<no message>"
C12_FromJsonByKey ==
    (fn_arg.op = "from_json" /\ Len(fn_ret) = 1) =>
        LET j == fn_arg.json
            e == fn_ret[1]
        IN  /\ e.status = fn_arg.status
            /\ ~HasKey(j, "error_type") =>
                  e.error_type = Lit("<no code>") /\ e.meta = Some(j)
            /\ HasKey(j, "error_type") =>
                  e.meta = (IF HasKey(j, "meta") THEN Some(j.o["meta"]) ELSE None)
            /\ ~HasKey(j, "msg") => e.msg = Lit("<no message>")

\* C12 amended: from_json(s, j) has status s; when j's error_type is a JSON
\* string the error has that error_type, and as meta j's "meta" member when
\* there is one and None otherwise; when error_type is missing or is not a
\* string the error_type is "<no code>" and the meta the whole of j; msg is
\* j's msg when that is a string and "<no message>" otherwise
C12_FromJsonByString ==
    (fn_arg.op = "from_json" /\ Len(fn_ret) = 1) =>
        LET j == fn_arg.json
            e == fn_ret[1]
        IN  /\ e.status = fn_arg.status
            /\ ~HasString(j, "error_type") =>
                  e.error_type = Lit("<no code>") /\ e.meta = Some(j)
            /\ HasString(j, "error_type") =>
                  /\ e.error_type = j.o["error_type"].s
                  /\ e.meta = (IF HasKey(j, "meta") THEN Some(j.o["meta"]) ELSE None)
            /\ e.msg = (IF HasString(j, "msg") THEN j.o["msg"].s
                        ELSE Lit("<no message>"))

\* from_json has read an object whose error_type is a number, with a meta
C12_Witness ==
    /\ fn_arg.op = "from_json" /\ Len(fn_ret) = 1
    /\ HasKey(fn_arg.json, "error_type") /\ fn_arg.json.o["error_type"].t = "num"
    /\ HasKey(fn_arg.json, "meta") /\ HasString(fn_arg.json, "msg")

\* C13: root_err returns, for an error under any number of AfterBodyError
\* layers, the error the layers were put around, which is no AfterBodyError;
\* root_err of what it returned is the same error again
C13_RootErrInnermost ==
    fn_arg.op = "root_err" =>
        /\ Len(fn_ret) >= 1 =>
              fn_ret[1].kind # "AfterBodyError" /\ fn_ret[1] = fn_arg.root
        /\ Len(fn_ret) = 2 => fn_ret[2] = fn_ret[1]

\* root_err has been taken twice of an error under the most layers
C13_Witness ==
    /\ fn_arg.op = "root_err" /\ Len(fn_ret) = 2
    /\ Len(fn_arg.layers) = MaxWrap
    /\ fn_arg.layers[1] = "response" /\ fn_arg.layers[MaxWrap] = "request"

\* C15: once the body of a response is read, to_proto goes by the status
\* alone: a 2xx response gives the ServiceResponse with the decoded message,
\* or an error whose root is ProstDecodeError, never a TwirpError; any other
\* status gives an error whose root is the TwirpError of that status decoded
\* from the body when the body is JSON, and JsonDecodeError when it is not
C15_ResponseDecodedByStatus ==
    (fn_arg.op = "from_hyper_proto" /\ Len(fn_ret) = 2) =>
        LET raw == fn_ret[1].v
            r == fn_ret[2]
            json == FromSlice(raw.output)
        IN  /\ raw.status = fn_arg.resp.status /\ raw.output = fn_arg.resp.body
            /\ (raw.status >= 200 /\ raw.status <= 299) =>
                  IF r.ok
                  THEN /\ r.v.status = raw.status /\ r.v.headers = raw.headers
                       /\ MessageDecode(raw.output, [inches |-> 0]).v = r.v.output
                  ELSE InnermostCause(r.err) = ErrProstDecode
            /\ ~(raw.status >= 200 /\ raw.status <= 299) =>
                  /\ ~r.ok
                  /\ IF json.ok
                     THEN InnermostCause(r.err) = ErrTwirp(FromJson(raw.status, json.v))
                     ELSE InnermostCause(r.err) = ErrJsonDecode

\* a 1xx response whose body is JSON but no object has been decoded
C15_Witness ==
    /\ fn_arg.op = "from_hyper_proto" /\ Len(fn_ret) = 2
    /\ fn_arg.resp.status = 100 /\ fn_arg.resp.body = <<"null">>
    /\ HdrGet(fn_arg.resp.headers, CONTENT_TYPE) = Some(PROTOBUF_CONTENT_TYPE)

(***************************************************************************)
(* Properties of HyperClient, under SpecClient.                            *)
(***************************************************************************)
\* s without the '/' chunks it ends with, however many
WithoutTrailingSlashes(s) ==
    LET n == CHOOSE k \in 0..Len(s) :
                 /\ k = 0 \/ s[k] # SLASH
                 /\ \A i \in (k + 1)..Len(s) : s[i] = SLASH
    IN  SubSeq(s, 1, n)

\* s without the '/' chunks it starts with, however many
WithoutLeadingSlashes(s) ==
    LET n == CHOOSE k \in 1..(Len(s) + 1) :
                 /\ k = Len(s) + 1 \/ s[k] # SLASH
                 /\ \A i \in 1..(k - 1) : s[i] = SLASH
    IN  SubSeq(s, n, Len(s))

\* C14: a client made with root URL r and a client made with r and "/" after
\* it, asked for the same path p, both send a request or both send none, and
\* the two requests go to the same URL: r without its trailing '/', one '/',
\* p without its leading '/'; the uri of the ServiceRequest given to go is
\* not in it
C14_SameUrlWithOrWithoutSlash ==
    (clients # << >> /\ IsSome(clients["r"].call) /\ IsSome(clients["r/"].call)
     /\ clients["r"].call[1].path = clients["r/"].call[1].path) =>
        /\ clients["r/"].ctor = clients["r"].ctor \o <<SLASH>>
        /\ IsSome(clients["r"].sent) <=> IsSome(clients["r/"].sent)
        /\ IsSome(clients["r"].sent) =>
              /\ clients["r"].sent[1].uri = clients["r/"].sent[1].uri
              /\ clients["r"].sent[1].uri =
                    WithoutTrailingSlashes(clients["r"].ctor) \o <<SLASH>>
                    \o WithoutLeadingSlashes(clients["r"].call[1].path)

\* both clients have sent, for a path with leading slashes and a root that
\* ends in '/' already, one of them given a ServiceRequest with a uri of its own
C14_Witness ==
    /\ clients # << >>
    /\ IsSome(clients["r"].sent) /\ IsSome(clients["r/"].sent)
    /\ clients["r"].ctor = <<"http:", SLASH, SLASH, "x", SLASH>>
    /\ clients["r"].call[1].path = clients["r/"].call[1].path
    /\ Len(clients["r"].call[1].path) > 1 /\ clients["r"].call[1].path[2] = SLASH
    /\ clients["r"].call[1].req.uri = "/twirp/other"
    /\ clients["r/"].call[1].req.uri = DefaultUri

(***************************************************************************)
(* Properties of ServiceRequest, under SpecEnvelope.                       *)
(***************************************************************************)
\* the operations of encoding a new request and decoding what was encoded
RoundTripOps ==
    <<"new", "to_proto_raw", "to_hyper_raw", "from_hyper_body_request", "to_proto">>

\* C16: for every message m, ServiceRequest::new(m) encoded by to_proto_raw
\* and to_hyper_raw and the HTTP request decoded by from_hyper_body_request
\* and to_proto: no step fails, the decoded request's input is m, and every
\* header of the request new returned is on it with the same values
C16_RequestRoundTrip ==
    (env.ops # << >> /\ Len(env.ops) <= Len(RoundTripOps)
     /\ env.ops = SubSeq(RoundTripOps, 1, Len(env.ops))) =>
        /\ env.kind # "error"
        /\ env.ops = RoundTripOps =>
              /\ env.kind = "typed"
              /\ env.v.input = env.made[1].input
              /\ \A n \in DOMAIN env.made[1].headers :
                    /\ n \in DOMAIN env.v.headers
                    /\ env.v.headers[n] = env.made[1].headers[n]

\* the round trip has been made with the largest message
C16_Witness ==
    /\ env.ops = RoundTripOps
    /\ env.made = Some(ServiceRequestNew([inches |-> MaxNum]))
    /\ CONTENT_LENGTH \in DOMAIN env.v.headers

\* C17: every ServiceRequest made by any sequence of new, clone_with_input,
\* from_hyper_raw, from_hyper_body_request, to_proto and to_proto_raw has
\* method POST; the one new returns has Content-Type application/protobuf
\* and the default, empty URI as well
C17_MethodAlwaysPost ==
    env.kind \in {"typed", "raw"} =>
        /\ env.v.method = "POST"
        /\ env.ops = <<"new">> =>
              /\ HdrGet(env.v.headers, CONTENT_TYPE) = Some(PROTOBUF_CONTENT_TYPE)
              /\ env.v.uri = DefaultUri

(***************************************************************************)
(* Requests in flight together, under Spec.                                *)
(***************************************************************************)
\* all that the model holds of one request
SlotState(id) ==
    <<pc[id], request[id], handled[id], invoked[id], result[id], outcome[id]>>

\* a step of request id leaves every other request as it was, and an outcome
\* once there stays
StepOfOne ==
    /\ \E id \in Slots :
          \A other \in Slots \ {id} : SlotState(other)' = SlotState(other)
    /\ \A id \in Slots : IsSome(outcome[id]) => outcome'[id] = outcome[id]

\* C18: however the steps of the requests in flight interleave, a request has
\* an outcome exactly when it is done, the outcome is the same for the same
\* request and the same handler result whichever slot and whatever the other
\* requests did, no step of one request touches another, and an outcome never
\* changes once given
C18_RequestsIndependent ==
    /\ [](\A id \in Slots : IsSome(outcome[id]) <=> pc[id] = "done")
    /\ [](\A i, j \in Slots :
            (pc[i] = "done" /\ pc[j] = "done"
             /\ request[i] = request[j] /\ result[i] = result[j])
            => outcome[i] = outcome[j])
    /\ [][StepOfOne]_vars

\* two requests alike were in flight together and were answered differently,
\* each from its own handler result
C18_Witness ==
    /\ \A id \in Slots : pc[id] = "done"
    /\ \E i, j \in Slots :
          /\ i # j
          /\ IsSome(result[i]) /\ IsSome(result[j])
          /\ request[i] = request[j]
          /\ result[i] # result[j]
          /\ outcome[i] # outcome[j]

(***************************************************************************)
(* Properties of the generator's references to the runtime, under SpecGen. *)
(***************************************************************************)
\* the text of a method signature whose runtime types are rooted at root
SigRootedAt(root, method) ==
    "fn " \o method.name \o "(&self, i: " \o root \o "::PTReq<"
          \o method.input_type \o ">) -> " \o root \o "::PTRes<"
          \o method.output_type \o ">"

\* every reference to the runtime in the i-th item of the buffer starts at root
ItemRootedAt(root, i) ==
    LET item == buf[i]
        \* sig is the signature, its types at root, of a method of a service
        \* of that name
        IsSigOf(sig, name) ==
            \E s \in Services : \E k \in 1..Len(s.methods) :
                s.name = name /\ sig = SigRootedAt(root, s.methods[k])
    IN  CASE item.kind \in {"type_aliases", "main_impl", "client_struct"} ->
                item.root = root
          [] item.kind = "trait" ->
                \A k \in 1..Len(item.sigs) : IsSigOf(item.sigs[k], item.name)
          [] item.kind = "client_impl" ->
                \A k \in 1..Len(item.methods) :
                    IsSigOf(item.methods[k].sig, item.name)
          [] item.kind = "server_impl" ->
                /\ item.root = root
                /\ \A k \in 1..Len(item.arms) : item.arms[k].root = root
          [] OTHER -> TRUE

\* the step finalize() takes
FinalizeStep == gen_pc = "generate" /\ gen_pc' = "finalized"

\* C19: with embed_client set, every reference to the runtime that generate()
\* emits starts at prost_twirp and finalize() appends one module, named
\* prost_twirp and holding the text of the runtime's source, after what was
\* there; with embed_client unset every reference starts at ::prost_twirp and
\* finalize() leaves the buffer as it is
C19_RuntimeRootFollowsEmbedClient ==
    /\ [](\A i \in 1..Len(buf) :
            ItemRootedAt(IF embed_client THEN "prost_twirp" ELSE "::prost_twirp", i))
    /\ [][FinalizeStep =>
            IF embed_client
            THEN /\ Len(buf') = Len(buf) + 1
                 /\ SubSeq(buf', 1, Len(buf)) = buf
                 /\ buf'[Len(buf')].kind = "embedded_runtime"
                 /\ buf'[Len(buf')].name = "prost_twirp"
                 /\ buf'[Len(buf')].source = "service_run.rs"
            ELSE buf' = buf]_vars

\* a run with embed_client set has generated services with methods and has
\* been finalized
C19_Witness ==
    /\ embed_client /\ gen_pc = "finalized"
    /\ Len(generated) = MaxServices
    /\ Len(generated[1].methods) = 2
    /\ buf[Len(buf)].kind = "embedded_runtime"

\* C20: over the generate() calls of one run and the finalize() after them,
\* the aliases PTReq / PTRes are appended to the output once at most
C20_TypeAliasesAtMostOnce ==
    Len(ItemsOfKind("type_aliases")) <= 1

(***************************************************************************)
(* Properties of serialization, under SpecSerialize.                       *)
(***************************************************************************)
\* C21: the HTTP message to_hyper_raw or to_hyper_body_raw makes of a raw
\* ServiceRequest or ServiceResponse has one Content-Length value and no
\* more, and it is the length of the body, whether or not the envelope's
\* headers held a Content-Length before
C21_OneContentLength ==
    (fn_arg.op \in {"request_to_hyper", "response_to_hyper"} /\ Len(fn_ret) = 1) =>
        LET msg == fn_ret[1].msg IN
        /\ CONTENT_LENGTH \in DOMAIN msg.headers
        /\ msg.headers[CONTENT_LENGTH] = <<ToString(Len(msg.body))>>

(***************************************************************************)
(* The generated client against the generated server, under SpecGen.       *)
(***************************************************************************)
\* C22: for every service generated and every method of it, the path the
\* generated client passes to go() is the path of that method's arm in the
\* generated server, the arm calls the method of the same name, no other arm
\* has that path, so the server's match takes the request to that method,
\* and two methods whose proto names differ have different paths
C22_ClientPathIsServerArm ==
    \A k \in 1..Len(generated) :
        LET service == generated[k]
            client == ItemsOfKind("client_impl")[k]
            server == ItemsOfKind("server_impl")[k]
        IN  /\ Len(client.methods) = Len(service.methods)
            /\ Len(server.arms) = Len(service.methods)
            /\ \A i \in 1..Len(service.methods) :
                  /\ client.methods[i].url = server.arms[i].path
                  /\ server.arms[i].method_name = service.methods[i].name
                  /\ \A j \in 1..Len(server.arms) :
                        server.arms[j].path = client.methods[i].url => j = i
                  /\ MatchArm(service, client.methods[i].url) = i
                  /\ \A j \in 1..Len(service.methods) :
                        service.methods[i].proto_name # service.methods[j].proto_name
                        => client.methods[i].url # client.methods[j].url

\* services of two methods each have been generated
C22_Witness ==
    /\ Len(generated) = MaxServices
    /\ \A k \in 1..Len(generated) : Len(generated[k].methods) = 2
    /\ generated[1].name # generated[MaxServices].name
    /\ Len(ItemsOfKind("server_impl")[MaxServices].arms) = 2

====
